---------------------------- MODULE Spec2Model ----------------------------
(***************************************************************************)
(* Weighted A* planner of SparseWorld (src/SparseWorld/Planner.py) over    *)
(* the occupancy grid of Map.py, and the world of obstacles and rays of    *)
(* src/SparseWorld/Environment.py; and the grid world of src/Grid.py.      *)
(*                                                                         *)
(* Numbers: the code computes costs in float64 (np.linalg.norm).  Here a   *)
(* length is a fixed-point integer, floor(Scale * sqrt(i*i + j*j)); np.inf *)
(* is the sentinel Inf, larger than every finite cost of the model.        *)
(* World coordinates are integers, Res of them per grid cell.              *)
(***************************************************************************)
EXTENDS Integers, Sequences, FiniteSets, TLC

GridW == 3
GridH == 2
GridRows == 2
GridCols == 3
MaxObstacles == 1
Res == 2
Scale == 1000
Inf == 100000000

VARIABLES
    grid,        \* OccupancyGrid._map : cell -> GridStatus
    path,        \* Planner._path (<<>> while path_none)
    path_none,   \* Planner._path is None
    path_idx,    \* Planner._path_idx (0 while idx_none)
    idx_none,    \* Planner._path_idx is None
    last,        \* the last call: its name, arguments and outcome
    obstacles,   \* Environment._obstacles
    agent_state, \* Environment._agent_state, an array: its shape and its entries
    elast,       \* the last call on the environment: name, arguments, outcome
    search,      \* the locals of one run of _plan_algo, taken loop by loop
    world_grid,  \* Grid._grid : coordinate -> GridStatus
    agent_pos,   \* Grid.agent_pos (None before a placement)
    target_pos,  \* Grid.target_pos (None before a placement)
    glast        \* the last call on the grid world: name, arguments, outcome

vars == <<grid, path, path_none, path_idx, idx_none, last, obstacles, agent_state, elast,
          search, world_grid, agent_pos, target_pos, glast>>

\* the state of the grid world of Grid.py
grid_world == <<world_grid, agent_pos, target_pos, glast>>

\* everything but the grid world, which no call on the grid world touches
beyond_grid_world ==
    <<grid, path, path_none, path_idx, idx_none, last, obstacles, agent_state, elast,
      search>>

\* the state of the environment and of a search taken loop by loop, which no
\* planner call touches
beyond_planner == <<obstacles, agent_state, elast, search, grid_world>>

\* the state of the planner, its map and a search taken loop by loop, which no
\* environment call touches
beyond_environment ==
    <<grid, path, path_none, path_idx, idx_none, last, search, grid_world>>

\* the state of the planner object and of the environment, which the locals of
\* a run of _plan_algo are apart from
beyond_search ==
    <<grid, path, path_none, path_idx, idx_none, last, obstacles, agent_state, elast,
      grid_world>>

(***************************************************************************)
(* Map.py                                                                  *)
(***************************************************************************)
EMPTY == 0
OBSTACLE == 1

Cells == (0..(GridW - 1)) \X (0..(GridH - 1))

\* the world points the calls are given: each cell's origin and its far corner
WorldPts == {<<Res * c[1] + o, Res * c[2] + o>> : c \in Cells, o \in {0, Res - 1}}

NoCell == <<-1, -1>>

convert_to_grid_coord(p) == <<p[1] \div Res, p[2] \div Res>>

convert_to_world_coord(c) == <<c[1] * Res, c[2] * Res>>

Abs(n) == IF n < 0 THEN -n ELSE n

Sgn(n) == IF n < 0 THEN -1 ELSE IF n > 0 THEN 1 ELSE 0

RECURSIVE RayStep(_, _, _, _, _)
RayStep(x, y, x1, y1, err) ==
    IF x = x1 /\ y = y1 THEN <<<<x, y>>>>
    ELSE LET dx == Abs(x1 - x)
             dy == Abs(y1 - y)
             e2 == 2 * err
             mx == e2 > -dy
             my == e2 < dx
             nx == IF mx THEN x + Sgn(x1 - x) ELSE x
             ny == IF my THEN y + Sgn(y1 - y) ELSE y
             ne == err - (IF mx THEN dy ELSE 0) + (IF my THEN dx ELSE 0)
         IN  <<<<x, y>>>> \o RayStep(nx, ny, x1, y1, ne)

raytrace(x0, y0, x1, y1) == RayStep(x0, y0, x1, y1, Abs(x1 - x0) - Abs(y1 - y0))

get_binary_map(m) == [c \in Cells |-> IF m[c] > 0 THEN OBSTACLE ELSE EMPTY]

(***************************************************************************)
(* Planner.py: costs and neighbor strategies                               *)
(***************************************************************************)
ISqrt(n) == CHOOSE r \in 0..(Scale * (GridW + GridH)) : r * r <= n /\ (r + 1) * (r + 1) > n

MaxSq == (GridW - 1) * (GridW - 1) + (GridH - 1) * (GridH - 1)

NormTab == [k \in 0..MaxSq |-> ISqrt(k * Scale * Scale)]

\* np.linalg.norm of the integer vector (i, j)
Norm(i, j) == NormTab[i * i + j * j]

InMap(c) == c[1] >= 0 /\ c[2] >= 0 /\ c[1] < GridW /\ c[2] < GridH

\* the (i, j) pairs of the two nested range loops, in loop order
Offsets(h) == [k \in 1..((2 * h + 1) * (2 * h + 1)) |->
                 <<((k - 1) \div (2 * h + 1)) - h, ((k - 1) % (2 * h + 1)) - h>>]

HasObstacle(m, ray) == \E k \in 1..Len(ray) : m[ray[k]] = OBSTACLE

get_8_neighbors(m, vertex) ==
    LET keep(o) == ~(o[1] = 0 /\ o[2] = 0) /\ InMap(<<vertex[1] + o[1], vertex[2] + o[2]>>)
        offs == SelectSeq(Offsets(1), keep)
    IN  [k \in 1..Len(offs) |->
           LET pos == <<vertex[1] + offs[k][1], vertex[2] + offs[k][2]>>
           IN  [coord |-> pos,
                cost |-> IF m[vertex] # OBSTACLE /\ m[pos] # OBSTACLE
                         THEN Norm(offs[k][1], offs[k][2]) ELSE Inf]]

get_n_grid_neighbors(m, vertex, n) ==
    LET n1 == IF n < 3 THEN 3 ELSE n
        n2 == IF n1 % 2 = 0 THEN n1 + 1 ELSE n1
        h == (n2 - 1) \div 2
        keep(o) == ~(o[1] = 0 /\ o[2] = 0) /\ InMap(<<vertex[1] + o[1], vertex[2] + o[2]>>)
        offs == SelectSeq(Offsets(h), keep)
    IN  [k \in 1..Len(offs) |->
           LET pos == <<vertex[1] + offs[k][1], vertex[2] + offs[k][2]>>
               ray == raytrace(vertex[1], vertex[2], pos[1], pos[2])
           IN  [coord |-> pos,
                cost |-> IF ~HasObstacle(m, ray)
                         THEN Norm(offs[k][1], offs[k][2]) ELSE Inf]]

NeighborN == 3

neighbor_func(m, vertex) == get_n_grid_neighbors(m, vertex, NeighborN)

Eps == 1

heuristic(v) == Norm(v[1], v[2])

(***************************************************************************)
(* Planner.py: A_Star_Planner._plan_algo                                   *)
(*                                                                         *)
(* OPEN is the pqdict: a function from its keys to their priorities.       *)
(* popitem returns a key of least priority; which one among several of     *)
(* equal priority depends on the heap's layout, so it is the parameter tb: *)
(* "lo" takes the first such key in row-major order, "hi" the last.        *)
(***************************************************************************)
TieBreaks == {"lo", "hi"}

CellIdx(c) == c[1] * GridH + c[2]

\* popitem taking a key of greatest priority
popitem_greatest(OPEN, tb) ==
    LET most == {c \in DOMAIN OPEN : \A d \in DOMAIN OPEN : OPEN[c] >= OPEN[d]}
    IN  IF tb = "lo"
        THEN CHOOSE c \in most : \A d \in most : CellIdx(c) <= CellIdx(d)
        ELSE CHOOSE c \in most : \A d \in most : CellIdx(c) >= CellIdx(d)

popitem(OPEN, tb) ==
    LET least == {c \in DOMAIN OPEN : \A d \in DOMAIN OPEN : OPEN[c] <= OPEN[d]}
    IN  IF tb = "lo"
        THEN CHOOSE c \in least : \A d \in least : CellIdx(c) <= CellIdx(d)
        ELSE CHOOSE c \in least : \A d \in least : CellIdx(c) >= CellIdx(d)

\* lines 221-229: the for loop over infos, from its k-th element on
RECURSIVE Relax(_, _, _, _, _)
Relax(infos, k, parent_ind, target, st) ==
    IF k > Len(infos) THEN st
    ELSE LET child_ind == infos[k].coord
             child_cost == infos[k].cost
             better == child_cost # Inf /\ st.g[child_ind] > st.g[parent_ind] + child_cost
             ng == st.g[parent_ind] + child_cost
             nst == IF better
                    THEN [g |-> [st.g EXCEPT ![child_ind] = ng],
                          pred |-> [st.pred EXCEPT ![child_ind] = parent_ind],
                          OPEN |-> (child_ind :>
                                      (ng + Eps * heuristic(<<child_ind[1] - target[1],
                                                              child_ind[2] - target[2]>>)))
                                   @@ st.OPEN]
                    ELSE st
         IN  Relax(infos, k + 1, parent_ind, target, nst)

\* lines 207-229: the while loop
RECURSIVE SearchLoop(_, _, _, _)
SearchLoop(binary_map, target, tb, st) ==
    IF DOMAIN st.OPEN = {} THEN [done |-> FALSE, pred |-> st.pred]
    ELSE LET parent_ind == popitem(st.OPEN, tb)
             rest == [c \in (DOMAIN st.OPEN) \ {parent_ind} |-> st.OPEN[c]]
         IN  IF parent_ind = target THEN [done |-> TRUE, pred |-> st.pred]
             ELSE SearchLoop(binary_map, target, tb,
                             Relax(neighbor_func(binary_map, parent_ind), 1, parent_ind,
                                   target, [st EXCEPT !.OPEN = rest]))

\* numpy indexing: a negative index counts from the end of the axis
PredAt(pred, pos) == pred[<<pos[1] % GridW, pos[2] % GridH>>]

\* lines 234-240: the predecessors from pos back to start, target first
RECURSIVE Backtrack(_, _, _)
Backtrack(pred, start, pos) ==
    IF pos = start THEN <<pos>>
    ELSE <<pos>> \o Backtrack(pred, start, PredAt(pred, pos))

\* the backtracked list stored as it is, target first
NotReversed(s) == s

Reversed(s) == [k \in 1..Len(s) |-> s[Len(s) + 1 - k]]

\* _plan_algo refusing an occupied start cell before anything else
plan_algo_occupied_start(m, start, target, tb) ==
    IF m[start] > 0 THEN [done |-> FALSE, path |-> <<>>]
    ELSE IF start = target THEN [done |-> TRUE, path |-> <<start>>]
    ELSE LET st0 == [g |-> [c \in Cells |-> IF c = start THEN 0 ELSE Inf],
                     pred |-> [c \in Cells |-> NoCell],
                     OPEN |-> (start :> (0 + Eps * heuristic(<<start[1] - target[1],
                                                               start[2] - target[2]>>)))]
             r == SearchLoop(get_binary_map(m), target, tb, st0)
         IN  [done |-> r.done,
              path |-> IF r.done THEN Reversed(Backtrack(r.pred, start, target)) ELSE <<>>]

\* the result of _plan_algo: what it returns and what it stores in _path
plan_algo(m, start, target, tb) ==
    IF start = target THEN [done |-> TRUE, path |-> <<start>>]
    ELSE LET binary_map == get_binary_map(m)
             st0 == [g |-> [c \in Cells |-> IF c = start THEN 0 ELSE Inf],
                     pred |-> [c \in Cells |-> NoCell],
                     OPEN |-> (start :> (0 + Eps * heuristic(<<start[1] - target[1],
                                                               start[2] - target[2]>>)))]
             r == SearchLoop(binary_map, target, tb, st0)
         IN  [done |-> r.done,
              path |-> IF r.done THEN Reversed(Backtrack(r.pred, start, target)) ELSE <<>>]

(***************************************************************************)
(* _plan_algo taken one loop iteration at a time, for a planner built with *)
(* any eps.  search holds the locals of the run: the binary map m, start,  *)
(* target, the queue's order tb among equal priorities, eps, the tables g  *)
(* and pred, the queue OPEN, the flag done, the backtracking position pos  *)
(* and list path, pc, the loop the run is in, and steps, the number of loop *)
(* iterations made so far, which a run never takes beyond MaxSteps.        *)
(***************************************************************************)
MaxEps == 2

EpsValues == 1..MaxEps

\* the for loop over infos without the comparison of costs-to-come in its test
RECURSIVE RelaxUnconditionally(_, _, _, _, _, _)
RelaxUnconditionally(eps, infos, k, parent_ind, target, st) ==
    IF k > Len(infos) THEN st
    ELSE LET child_ind == infos[k].coord
             child_cost == infos[k].cost
             better == child_cost # Inf
             ng == st.g[parent_ind] + child_cost
             nst == IF better
                    THEN [g |-> [st.g EXCEPT ![child_ind] = ng],
                          pred |-> [st.pred EXCEPT ![child_ind] = parent_ind],
                          OPEN |-> (child_ind :>
                                      (ng + eps * heuristic(<<child_ind[1] - target[1],
                                                              child_ind[2] - target[2]>>)))
                                   @@ st.OPEN]
                    ELSE st
         IN  RelaxUnconditionally(eps, infos, k + 1, parent_ind, target, nst)

\* lines 221-229 for a planner built with eps
RECURSIVE RelaxWith(_, _, _, _, _, _)
RelaxWith(eps, infos, k, parent_ind, target, st) ==
    IF k > Len(infos) THEN st
    ELSE LET child_ind == infos[k].coord
             child_cost == infos[k].cost
             better == child_cost # Inf /\ st.g[child_ind] > st.g[parent_ind] + child_cost
             ng == st.g[parent_ind] + child_cost
             nst == IF better
                    THEN [g |-> [st.g EXCEPT ![child_ind] = ng],
                          pred |-> [st.pred EXCEPT ![child_ind] = parent_ind],
                          OPEN |-> (child_ind :>
                                      (ng + eps * heuristic(<<child_ind[1] - target[1],
                                                              child_ind[2] - target[2]>>)))
                                   @@ st.OPEN]
                    ELSE st
         IN  RelaxWith(eps, infos, k + 1, parent_ind, target, nst)

\* no run
SearchIdle ==
    [m |-> <<>>, start |-> NoCell, target |-> NoCell, tb |-> "lo", eps |-> 1,
     g |-> <<>>, pred |-> <<>>, OPEN |-> <<>>, pc |-> "idle", done |-> FALSE,
     pos |-> NoCell, path |-> <<>>, steps |-> 0]

\* lines 185-205: the early return for start = target, or the initial tables
SearchStart(m, start, target, tb, eps) ==
    IF start = target
    THEN [SearchIdle EXCEPT !.m = get_binary_map(m), !.start = start, !.target = target,
                            !.tb = tb, !.eps = eps,
                            !.pc = "done", !.done = TRUE, !.path = <<start>>]
    ELSE [SearchIdle EXCEPT !.m = get_binary_map(m), !.start = start, !.target = target,
                            !.tb = tb, !.eps = eps,
                            !.g = [c \in Cells |-> IF c = start THEN 0 ELSE Inf],
                            !.pred = [c \in Cells |-> NoCell],
                            !.OPEN = (start :> (0 + eps * heuristic(<<start[1] - target[1],
                                                                      start[2] - target[2]>>))),
                            !.pc = "search"]

(***************************************************************************)
(* Python sequence indexing: s[i] with i counted from 0, a negative i from *)
(* the end; an index outside -len..len-1 raises IndexError.                *)
(***************************************************************************)
PyInRange(s, i) == -Len(s) <= i /\ i < Len(s)

PyAt(s, i) == s[(IF i < 0 THEN i + Len(s) ELSE i) + 1]

(***************************************************************************)
(* Planner.py: SearchBasedPlanner.path_valid                               *)
(***************************************************************************)
\* line 165: the test on the traced cells of one segment
SegmentRejected(m, ray) == Cardinality({k \in 1..Len(ray) : m[ray[k]] > 0}) = 0

\* lines 158-167: the for loop from index i on; start_cell is the grid cell
\* of the caller's position
RECURSIVE path_valid_loop(_, _, _, _)
path_valid_loop(m, p, i, start_cell) ==
    IF i >= Len(p) THEN "true"
    ELSE IF i # 0 /\ ~PyInRange(p, i - 1) THEN "raise"
    ELSE IF ~PyInRange(p, i) THEN "raise"
    ELSE LET start == IF i = 0 THEN start_cell ELSE PyAt(p, i - 1)
             pos == PyAt(p, i)
             ray == raytrace(start[1], start[2], pos[1], pos[2])
         IN  IF SegmentRejected(m, ray) THEN "false"
             ELSE path_valid_loop(m, p, i + 1, start_cell)

\* "true", "false", or "raise" when the call ends in an exception
path_valid(m, p, p_none, idx, i_none, start) ==
    IF p_none THEN "false"
    ELSE IF Len(p) # 1 /\ i_none THEN "raise"
    ELSE IF Len(p) # 1 /\ idx + 1 >= Len(p) THEN "false"
    ELSE IF i_none THEN "raise"
    ELSE path_valid_loop(m, p, idx, convert_to_grid_coord(start))

(***************************************************************************)
(* Map.py: OccupancyGrid.update_map for one scan result, given by the cell *)
(* its endpoint falls in and whether the range was below max range         *)
(***************************************************************************)
update_map(m, scan_start, endpoint, hit) ==
    LET o == convert_to_grid_coord(scan_start)
        ray == raytrace(o[1], o[2], endpoint[1], endpoint[2])
        between == {ray[k] : k \in 2..(Len(ray) - 1)}
    IN  [c \in Cells |-> IF c \in between THEN EMPTY
                         ELSE IF c = endpoint /\ hit THEN OBSTACLE
                         ELSE m[c]]

Obstacles(m) == {c \in Cells : m[c] = OBSTACLE}

\* the map in which every cell next to c is an obstacle and no other cell is
EnclosedGrid(c) ==
    [d \in Cells |-> IF d # c /\ Abs(d[1] - c[1]) <= 1 /\ Abs(d[2] - c[2]) <= 1
                     THEN OBSTACLE ELSE EMPTY]

\* the maps of the model: at most MaxObstacles obstacle cells, or one enclosed cell
Grids ==
    {m \in [Cells -> {EMPTY, OBSTACLE}] :
        \/ Cardinality(Obstacles(m)) <= MaxObstacles
        \/ \E c \in Cells : m = EnclosedGrid(c)}

NumCells == GridW * GridH

CellAt(i) == <<i \div GridH, i % GridH>>

\* a map as a number, one bit per cell, and back
RECURSIVE GridKeyFrom(_, _)
GridKeyFrom(m, i) ==
    IF i >= NumCells THEN 0
    ELSE (IF m[CellAt(i)] = OBSTACLE THEN 2 ^ i ELSE 0) + GridKeyFrom(m, i + 1)

GridKey(m) == GridKeyFrom(m, 0)

GridOf(k) == [c \in Cells |-> IF (k \div (2 ^ CellIdx(c))) % 2 = 1 THEN OBSTACLE ELSE EMPTY]

PlanKey(s, t, tb) == (CellIdx(s) * NumCells + CellIdx(t)) * 2 + (IF tb = "lo" THEN 0 ELSE 1)

\* _plan_algo on every map of the model, computed once
PlanTab ==
    [k \in 0..(2 ^ NumCells - 1) |->
        IF GridOf(k) \in Grids
        THEN [q \in 0..(2 * NumCells * NumCells - 1) |->
                plan_algo(GridOf(k), CellAt((q \div 2) \div NumCells),
                          CellAt((q \div 2) % NumCells),
                          IF q % 2 = 0 THEN "lo" ELSE "hi")]
        ELSE <<>>]

(***************************************************************************)
(* Environment.py: the world, its obstacles and the agent                  *)
(***************************************************************************)
HalfW == 3
HalfH == 3
MaxEnvObstacles == 2

\* the motion model's state dimension; entries 1 and 2 are the position
StateDim == 3

env_size == <<2 * HalfW, 2 * HalfH>>

Obstacle(top, left, bottom, right) ==
    [top |-> top, left |-> left, bottom |-> bottom, right |-> right]

\* a one-dimensional numpy array: its shape and its entries
Array1(data) == [shape |-> <<Len(data)>>, data |-> data]

\* an array of the given shape holding the given entries in row-major order
ArrayOf(shape, data) == [shape |-> shape, data |-> data]

zeros(n) == Array1([k \in 1..n |-> 0])

\* MotionModel.position_state_idx
position_state_idx == <<1, 2>>

\* MotionModel.state_2_position
state_2_position(state) ==
    <<state.data[position_state_idx[1]], state.data[position_state_idx[2]]>>

\* MotionModel.step: the candidate next state; braking holds the agent still
step(state, input, braking) ==
    IF braking
    THEN state
    ELSE [state EXCEPT !.data[position_state_idx[1]] = @ + input[1],
                       !.data[position_state_idx[2]] = @ + input[2]]

\* the test of Environment.add_obstacle
add_obstacle_accepts(obs) ==
    /\ obs.left >= 0
    /\ obs.right <= env_size[1]
    /\ obs.bottom >= 0
    /\ obs.top <= env_size[2]

\* the agent_state setter's test without the comparison of the length
agent_state_accepts_any_length(state) ==
    Len(state.shape) = 1

\* the test of the agent_state setter
agent_state_accepts(state) ==
    Len(state.shape) = 1 /\ state.shape[1] = StateDim

\* the test of the agent_position setter
agent_position_accepts(position) ==
    Len(position.shape) = 1 /\ position.shape[1] = 2

\* the in-place write self._agent_state[position_state_idx()] = position
set_position(state, position) ==
    [state EXCEPT !.data[position_state_idx[1]] = position.data[1],
                  !.data[position_state_idx[2]] = position.data[2]]

position_out_of_bounds(pos) ==
    pos[1] < 0 \/ pos[1] > env_size[1] \/ pos[2] < 0 \/ pos[2] > env_size[2]

state_out_of_bounds(state) == position_out_of_bounds(state_2_position(state))

\* position_in_obstacle with the obstacle's edges left out
position_strictly_in_obstacle(pos, obs) ==
    pos[1] > obs.left /\ pos[1] < obs.right /\ pos[2] > obs.bottom /\ pos[2] < obs.top

position_in_obstacle(pos, obs) ==
    pos[1] >= obs.left /\ pos[1] <= obs.right /\ pos[2] >= obs.bottom /\ pos[2] <= obs.top

state_in_obstacle(state, obs) == position_in_obstacle(state_2_position(state), obs)

state_in_obstacles(obsl, state) ==
    \E k \in 1..Len(obsl) : state_in_obstacle(state, obsl[k])

\* exact quotients n/d of integers, d > 0, in lowest terms; the infinities
\* that start tmin and tmax are quotients beyond every parameter of a ray
RECURSIVE GCD(_, _)
GCD(a, b) == IF b = 0 THEN a ELSE GCD(b, a % b)

Rat(n, d) ==
    LET g == GCD(IF n < 0 THEN -n ELSE n, IF d < 0 THEN -d ELSE d)
    IN  IF d < 0 THEN <<(-n) \div g, (-d) \div g>> ELSE <<n \div g, d \div g>>

RLess(x, y) == x[1] * y[2] < y[1] * x[2]

RMin(x, y) == IF RLess(y, x) THEN y ELSE x

RMax(x, y) == IF RLess(x, y) THEN y ELSE x

BeyondAll == 1000

MinusInf == <<-BeyondAll, 1>>

PlusInf == <<BeyondAll, 1>>

RayTraceResult(collide, endpoint) == [collide |-> collide, endpoint |-> endpoint]

\* a point with the exact coordinates of an integer point
PointOf(p) == <<Rat(p[1], 1), Rat(p[2], 1)>>

\* p0 + t * d
PointAt(p0, d, t) ==
    <<Rat(p0[1] * t[2] + t[1] * d[1], t[2]), Rat(p0[2] * t[2] + t[1] * d[2], t[2])>>

\* the final test with tmax < 1 in place of tmin < 1
ray_hits_and_leaves(tmin, tmax) ==
    RLess(tmin, tmax) /\ RLess(<<0, 1>>, tmax) /\ RLess(tmax, <<1, 1>>)

\* the final test of ray_intersect_obstacle
ray_hits(tmin, tmax) ==
    RLess(tmin, tmax) /\ RLess(<<0, 1>>, tmax) /\ RLess(tmin, <<1, 1>>)

\* the test of a zero-direction axis, never rejecting
zero_axis_never_rejects(p0i, lo, hi) == FALSE

\* the test of a zero-direction axis: the origin is not strictly inside the slab
zero_axis_rejects(p0i, lo, hi) == p0i <= lo \/ p0i >= hi

\* the loop over the axes from axis i on
RECURSIVE SlabLoop(_, _, _, _, _, _)
SlabLoop(p0, d, box, i, tmin, tmax) ==
    IF i > Len(p0)
    THEN [rejected |-> FALSE, tmin |-> tmin, tmax |-> tmax]
    ELSE IF d[i] # 0
         THEN LET t1 == Rat(box[1][i] - p0[i], d[i])
                  t2 == Rat(box[2][i] - p0[i], d[i])
              IN  SlabLoop(p0, d, box, i + 1,
                           RMax(tmin, RMin(t1, t2)), RMin(tmax, RMax(t1, t2)))
         ELSE IF zero_axis_rejects(p0[i], box[1][i], box[2][i])
              THEN [rejected |-> TRUE, tmin |-> tmin, tmax |-> tmax]
              ELSE SlabLoop(p0, d, box, i + 1, tmin, tmax)

\* Environment.ray_intersect_obstacle
ray_intersect_obstacle(ray, obs) ==
    LET p0 == ray[1]
        p1 == ray[2]
        d == <<p1[1] - p0[1], p1[2] - p0[2]>>
        box == <<<<obs.left, obs.bottom>>, <<obs.right, obs.top>>>>
    IN  IF position_in_obstacle(p0, obs)
        THEN RayTraceResult(FALSE, PointOf(p0))
        ELSE LET r == SlabLoop(p0, d, box, 1, MinusInf, PlusInf)
             IN  IF r.rejected
                 THEN RayTraceResult(FALSE, PointOf(p1))
                 ELSE IF ray_hits(r.tmin, r.tmax)
                      THEN RayTraceResult(TRUE, PointAt(p0, d, r.tmin))
                      ELSE RayTraceResult(FALSE, PointOf(p1))

\* Environment.ray_intersect_obstacles: the collision points, in list order
RECURSIVE ray_intersect_obstacles_from(_, _, _)
ray_intersect_obstacles_from(obsl, ray, k) ==
    IF k > Len(obsl)
    THEN <<>>
    ELSE LET result == ray_intersect_obstacle(ray, obsl[k])
         IN  IF result.collide
             THEN <<result.endpoint>> \o ray_intersect_obstacles_from(obsl, ray, k + 1)
             ELSE ray_intersect_obstacles_from(obsl, ray, k + 1)

ray_intersect_obstacles(obsl, ray) == ray_intersect_obstacles_from(obsl, ray, 1)

\* the scan range of the demonstration run
MaxRange == 5

\* max_range * (cos, sin) at the twelve angles, counter-clockwise from 0, at
\* which both coordinates are whole numbers
ConeEnds ==
    <<<<5, 0>>, <<4, 3>>, <<3, 4>>, <<0, 5>>, <<-3, 4>>, <<-4, 3>>,
      <<-5, 0>>, <<-4, -3>>, <<-3, -4>>, <<0, -5>>, <<3, -4>>, <<4, -3>>>>

\* np.arange over angle indexes: from a0 up to but not including a1
arange(a0, a1) == [k \in 1..(IF a1 > a0 THEN a1 - a0 ELSE 0) |-> a0 + k - 1]

\* np.linalg.norm of the vector from the integer point pos to the exact point pt
NormTo(pt, pos) ==
    LET x == Rat(pt[1][1] - pos[1] * pt[1][2], pt[1][2])
        y == Rat(pt[2][1] - pos[2] * pt[2][2], pt[2][2])
        sq == x[1] * x[1] * y[2] * y[2] + y[1] * y[1] * x[2] * x[2]
        root == CHOOSE r \in 0..(Abs(x[1]) * y[2] + Abs(y[1]) * x[2]) : r * r = sq
    IN  Rat(root, x[2] * y[2])

\* np.amin over the distances from pos to the points from index k on
RECURSIVE AMinNorm(_, _, _)
AMinNorm(pts, pos, k) ==
    IF k = Len(pts)
    THEN NormTo(pts[k], pos)
    ELSE RMin(NormTo(pts[k], pos), AMinNorm(pts, pos, k + 1))

ScanResult(angle, range) == [angle |-> angle, range |-> range]

\* Environment.scan_cone over the angles with indexes a0 .. a1 - 1
scan_cone(obsl, state, a0, a1) ==
    LET angles == arange(a0, a1)
        pos == state_2_position(state)
    IN  [i \in 1..Len(angles) |->
            LET end == ConeEnds[(angles[i] % Len(ConeEnds)) + 1]
                ray == <<pos, <<pos[1] + end[1], pos[2] + end[2]>>>>
                int_points == ray_intersect_obstacles(obsl, ray)
            IN  IF Len(int_points) = 0
                THEN ScanResult(angles[i], Rat(MaxRange, 1))
                ELSE ScanResult(angles[i], AMinNorm(int_points, pos, 1))]

\* Environment.__init__: a zero state with the agent at the centre
InitialAgentState ==
    set_position(zeros(StateDim), Array1(<<env_size[1] \div 2, env_size[2] \div 2>>))

NoArg == <<>>

ECall(op, res, arg, val) == [op |-> op, res |-> res, arg |-> arg, val |-> val]

EnvInit ==
    /\ obstacles = <<>>
    /\ agent_state = InitialAgentState
    /\ elast = ECall("init", "none", NoArg, NoArg)

(***************************************************************************)
(* Grid.py: the grid world                                                 *)
(***************************************************************************)
GridStatus ==
    [EMPTY |-> 0, WALL |-> 1, TARGET |-> 2, AGENT |-> 3, BOTH |-> 4, PREV_AGENT |-> 5]

Direction == [UP |-> 0, DOWN |-> 1, LEFT |-> 2, RIGHT |-> 3]

DirectionDict ==
    (<<-1, 0>> :> Direction.UP) @@ (<<1, 0>> :> Direction.DOWN)
        @@ (<<0, -1>> :> Direction.LEFT) @@ (<<0, 1>> :> Direction.RIGHT)

grid_size == <<GridRows, GridCols>>

\* the indexes of an array of shape grid_size
GridCoords == (0..(GridRows - 1)) \X (0..(GridCols - 1))

None == <<>>

\* a Grid object: its array and its two positions
GridObject(g, apos, tpos) == [_grid |-> g, agent_pos |-> apos, target_pos |-> tpos]

\* Grid.__init__
NewGrid == GridObject([c \in GridCoords |-> 0], None, None)

\* Grid.in_bounds
in_bounds(self, coord) ==
    coord[1] >= 0 /\ coord[1] < grid_size[1] /\ coord[2] >= 0 /\ coord[2] < grid_size[2]

\* not_wall finding no wall anywhere
not_wall_anywhere(self, coord) == TRUE

\* Grid.not_wall
not_wall(self, coord) == self._grid[coord] # GridStatus.WALL

\* what a call on the grid leaves and returns
GridReturn(self, ret) == [self |-> self, ret |-> ret]

\* Grid.place_agent
place_agent(self, row, col) ==
    IF in_bounds(self, <<row, col>>) /\ not_wall(self, <<row, col>>)
    THEN LET g1 == IF self.agent_pos # None
                   THEN [self._grid EXCEPT ![self.agent_pos] = GridStatus.PREV_AGENT]
                   ELSE self._grid
             g2 == IF g1[<<row, col>>] = GridStatus.TARGET
                   THEN [g1 EXCEPT ![<<row, col>>] = GridStatus.BOTH]
                   ELSE [g1 EXCEPT ![<<row, col>>] = GridStatus.AGENT]
             g3 == IF self.target_pos # None
                   THEN [g2 EXCEPT ![self.target_pos] = GridStatus.TARGET]
                   ELSE g2
         IN  GridReturn(GridObject(g3, <<row, col>>, self.target_pos), "true")
    ELSE GridReturn(self, "false")

\* Grid.place_target
place_target(self, row, col) ==
    IF in_bounds(self, <<row, col>>) /\ not_wall(self, <<row, col>>)
    THEN LET g1 == IF self.target_pos # None
                   THEN [self._grid EXCEPT ![self.target_pos] = GridStatus.EMPTY]
                   ELSE self._grid
             g2 == IF g1[<<row, col>>] = GridStatus.AGENT
                   THEN [g1 EXCEPT ![<<row, col>>] = GridStatus.BOTH]
                   ELSE [g1 EXCEPT ![<<row, col>>] = GridStatus.TARGET]
         IN  GridReturn(GridObject(g2, self.agent_pos, <<row, col>>), "true")
    ELSE GridReturn(self, "false")

\* Grid.agent_move; None + array raises TypeError
agent_move(self, dir) ==
    IF self.agent_pos = None
    THEN GridReturn(self, "raise")
    ELSE LET off == CASE dir = Direction.RIGHT -> <<0, 1>>
                      [] dir = Direction.DOWN -> <<1, 0>>
                      [] dir = Direction.LEFT -> <<0, -1>>
                      [] dir = Direction.UP -> <<-1, 0>>
             coord == <<self.agent_pos[1] + off[1], self.agent_pos[2] + off[2]>>
         IN  IF in_bounds(self, coord) /\ not_wall(self, coord)
             THEN place_agent(self, coord[1], coord[2])
             ELSE GridReturn(self, "false")

GCall(op, arg, ret) == [op |-> op, arg |-> arg, ret |-> ret]

\* the grid world as constructed, of which no call has been made
GridInit ==
    /\ world_grid = NewGrid._grid
    /\ agent_pos = NewGrid.agent_pos
    /\ target_pos = NewGrid.target_pos
    /\ glast = GCall("init", NoArg, "none")

(***************************************************************************)
(* The planner object                                                      *)
(***************************************************************************)
Call(op, res, a, b, val) == [op |-> op, res |-> res, a |-> a, b |-> b, val |-> val]

Init ==
    /\ grid = [c \in Cells |-> EMPTY]
    /\ path = <<>>
    /\ path_none = TRUE
    /\ path_idx = 0
    /\ idx_none = TRUE
    /\ last = Call("init", "none", NoCell, NoCell, NoCell)
    /\ EnvInit
    /\ search = SearchIdle
    /\ GridInit

\* plan that answers from the stored path when it already joins the two cells
PlanFromStoredPath(start, target, tb) ==
    LET s == convert_to_grid_coord(start)
        t == convert_to_grid_coord(target)
        stored == ~path_none /\ Len(path) > 0 /\ path[1] = s /\ path[Len(path)] = t
        r == IF stored
             THEN [done |-> TRUE, path |-> path]
             ELSE PlanTab[GridKey(grid)][PlanKey(s, t, tb)]
    IN  /\ path' = r.path
        /\ path_none' = FALSE
        /\ path_idx' = IF r.done THEN 0 ELSE path_idx
        /\ idx_none' = IF r.done THEN FALSE ELSE idx_none
        /\ last' = Call("plan", IF r.done THEN "true" ELSE "false", start, target, tb)
        /\ UNCHANGED <<grid, beyond_planner>>

\* A_Star_Planner.plan
Plan(start, target, tb) ==
    LET s == convert_to_grid_coord(start)
        t == convert_to_grid_coord(target)
        r == PlanTab[GridKey(grid)][PlanKey(s, t, tb)]
    IN  /\ path' = r.path
        /\ path_none' = FALSE
        /\ path_idx' = IF r.done THEN 0 ELSE path_idx
        /\ idx_none' = IF r.done THEN FALSE ELSE idx_none
        /\ last' = Call("plan", IF r.done THEN "true" ELSE "false", start, target, tb)
        /\ UNCHANGED <<grid, beyond_planner>>

\* SearchBasedPlanner.path_valid
PathValid(start) ==
    /\ last' = Call("path_valid",
                    path_valid(grid, path, path_none, path_idx, idx_none, start),
                    NoCell, NoCell, NoCell)
    /\ UNCHANGED <<grid, path, path_none, path_idx, idx_none, beyond_planner>>

\* A_Star_Planner.next_stop over Planner.next_stop
NextStop ==
    IF path_none
    THEN /\ last' = Call("next_stop", "raise", NoCell, NoCell, NoCell)
         /\ UNCHANGED <<grid, path, path_none, path_idx, idx_none, beyond_planner>>
    ELSE LET reset == Len(path) = 1
             idx == IF reset THEN -1 ELSE path_idx
             inone == IF reset THEN FALSE ELSE idx_none
             ok == ~inone /\ PyInRange(path, idx + 1)
         IN  /\ path_idx' = idx
             /\ idx_none' = inone
             /\ last' = IF ok
                        THEN Call("next_stop", "value", NoCell, NoCell,
                                  convert_to_world_coord(PyAt(path, idx + 1)))
                        ELSE Call("next_stop", "raise", NoCell, NoCell, NoCell)
             /\ UNCHANGED <<grid, path, path_none, beyond_planner>>

\* take_next_stop without its cursor increment
TakeNextStopNoAdvance ==
    IF path_none
    THEN /\ last' = Call("take_next_stop", "raise", NoCell, NoCell, NoCell)
         /\ UNCHANGED <<grid, path, path_none, path_idx, idx_none, beyond_planner>>
    ELSE LET reset == Len(path) = 1
             idx == IF reset THEN -1 ELSE path_idx
             inone == IF reset THEN FALSE ELSE idx_none
             ok == ~inone /\ PyInRange(path, idx + 1)
         IN  /\ path_idx' = idx
             /\ idx_none' = inone
             /\ last' = IF ok
                        THEN Call("take_next_stop", "value", NoCell, NoCell,
                                  convert_to_world_coord(PyAt(path, idx + 1)))
                        ELSE Call("take_next_stop", "raise", NoCell, NoCell, NoCell)
             /\ UNCHANGED <<grid, path, path_none, beyond_planner>>

\* take_next_stop without the cursor reset for a one-cell path
TakeNextStopNoReset ==
    IF path_none
    THEN /\ last' = Call("take_next_stop", "raise", NoCell, NoCell, NoCell)
         /\ UNCHANGED <<grid, path, path_none, path_idx, idx_none, beyond_planner>>
    ELSE LET ok == ~idx_none /\ PyInRange(path, path_idx + 1)
         IN  /\ path_idx' = IF ok THEN path_idx + 1 ELSE path_idx
             /\ last' = IF ok
                        THEN Call("take_next_stop", "value", NoCell, NoCell,
                                  convert_to_world_coord(PyAt(path, path_idx + 1)))
                        ELSE Call("take_next_stop", "raise", NoCell, NoCell, NoCell)
             /\ UNCHANGED <<grid, path, path_none, idx_none, beyond_planner>>

\* A_Star_Planner.take_next_stop over Planner.take_next_stop
TakeNextStop ==
    IF path_none
    THEN /\ last' = Call("take_next_stop", "raise", NoCell, NoCell, NoCell)
         /\ UNCHANGED <<grid, path, path_none, path_idx, idx_none, beyond_planner>>
    ELSE LET reset == Len(path) = 1
             idx == IF reset THEN -1 ELSE path_idx
             inone == IF reset THEN FALSE ELSE idx_none
             ok == ~inone /\ PyInRange(path, idx + 1)
         IN  /\ path_idx' = IF ok THEN idx + 1 ELSE idx
             /\ idx_none' = inone
             /\ last' = IF ok
                        THEN Call("take_next_stop", "value", NoCell, NoCell,
                                  convert_to_world_coord(PyAt(path, idx + 1)))
                        ELSE Call("take_next_stop", "raise", NoCell, NoCell, NoCell)
             /\ UNCHANGED <<grid, path, path_none, beyond_planner>>

\* SearchBasedPlanner.update_environment
UpdateEnvironment(scan_start, endpoint, hit) ==
    /\ grid' = update_map(grid, scan_start, endpoint, hit)
    /\ Cardinality(Obstacles(grid')) <= MaxObstacles
    /\ last' = Call("update", "none", NoCell, NoCell, NoCell)
    /\ UNCHANGED <<path, path_none, path_idx, idx_none, beyond_planner>>

Next ==
    \/ \E start \in WorldPts, target \in WorldPts, tb \in TieBreaks : Plan(start, target, tb)
    \/ \E start \in WorldPts : PathValid(start)
    \/ NextStop
    \/ TakeNextStop
    \/ \E scan_start \in WorldPts, endpoint \in Cells, hit \in BOOLEAN :
          UpdateEnvironment(scan_start, endpoint, hit)

Spec == Init /\ [][Next]_vars

(***************************************************************************)
(* One planning call on a given map, and the calls that consume its path   *)
(***************************************************************************)
InitPlan ==
    /\ grid \in Grids
    /\ path = <<>>
    /\ path_none = TRUE
    /\ path_idx = 0
    /\ idx_none = TRUE
    /\ last = Call("init", "none", NoCell, NoCell, NoCell)
    /\ EnvInit
    /\ search = SearchIdle
    /\ GridInit

NextPlan ==
    \/ /\ path_none
       /\ \E start \in WorldPts, target \in WorldPts, tb \in TieBreaks : Plan(start, target, tb)
    \/ \E start \in WorldPts : PathValid(start)
    \/ NextStop
    \/ TakeNextStop

SpecPlan == InitPlan /\ [][NextPlan]_vars

(***************************************************************************)
(* The environment object                                                  *)
(***************************************************************************)
\* obstacles offered to add_obstacle: two boxes inside the world, one behind
\* the other as seen from the centre; a box with its edges swapped, all of
\* them within the bounds; a box whose swapped top edge lies below the world;
\* and four boxes that stick out of the world on one side each
ObstacleInputs ==
    {Obstacle(4, 4, 2, 5), Obstacle(4, 5, 2, 6),
     Obstacle(0, env_size[1], env_size[2], 0),
     Obstacle(-1, 4, 1, 5),
     Obstacle(4, -1, 2, 2), Obstacle(4, 5, 2, env_size[1] + 1),
     Obstacle(1, 4, -1, 5), Obstacle(env_size[2] + 1, 4, 5, 5)}

\* a position followed by zeros, n entries in all
Padded(pos, n) == [k \in 1..n |-> IF k <= 2 THEN pos[k] ELSE 0]

SetPositions == {<<1, 1>>, <<4, 3>>}

StateInputs ==
    {Array1(Padded(pos, n)) : pos \in SetPositions, n \in (StateDim - 1)..(StateDim + 1)}
    \cup {ArrayOf(<<1, StateDim>>, Padded(pos, StateDim)) : pos \in SetPositions}

PositionInputs ==
    {Array1(Padded(pos, n)) : pos \in SetPositions, n \in 2..3}
    \cup {ArrayOf(<<1, 2>>, pos) : pos \in SetPositions}

StepInputs == {<<1, 0>>, <<-1, 0>>, <<0, 1>>, <<0, -1>>}

\* Environment.add_obstacle
AddObstacle(obs) ==
    IF add_obstacle_accepts(obs)
    THEN /\ Len(obstacles) < MaxEnvObstacles
         /\ obstacles' = Append(obstacles, obs)
         /\ elast' = ECall("add_obstacle", "true", obs, NoArg)
         /\ UNCHANGED <<agent_state, beyond_environment>>
    ELSE /\ elast' = ECall("add_obstacle", "false", obs, NoArg)
         /\ UNCHANGED <<obstacles, agent_state, beyond_environment>>

\* the agent_state setter
SetAgentState(state) ==
    /\ agent_state' = IF agent_state_accepts(state) THEN state ELSE agent_state
    /\ elast' = ECall("set_agent_state",
                      IF agent_state_accepts(state) THEN "true" ELSE "false",
                      state, NoArg)
    /\ UNCHANGED <<obstacles, beyond_environment>>

\* the agent_position setter
SetAgentPosition(position) ==
    /\ agent_state' = IF agent_position_accepts(position)
                      THEN set_position(agent_state, position)
                      ELSE agent_state
    /\ elast' = ECall("set_agent_position",
                      IF agent_position_accepts(position) THEN "true" ELSE "false",
                      position, NoArg)
    /\ UNCHANGED <<obstacles, beyond_environment>>

\* agent_take_step committing its candidate without any test
AgentTakeStepUnchecked(input, braking) ==
    /\ agent_state' = step(agent_state, input, braking)
    /\ elast' = ECall("agent_take_step", "true",
                      [input |-> input, braking |-> braking], NoArg)
    /\ UNCHANGED <<obstacles, beyond_environment>>

\* Environment.agent_take_step
AgentTakeStep(input, braking) ==
    LET new_state == step(agent_state, input, braking)
        ok == ~state_out_of_bounds(new_state) /\ ~state_in_obstacles(obstacles, new_state)
    IN  /\ agent_state' = IF ok THEN new_state ELSE agent_state
        /\ elast' = ECall("agent_take_step", IF ok THEN "true" ELSE "false",
                          [input |-> input, braking |-> braking], NoArg)
        /\ UNCHANGED <<obstacles, beyond_environment>>

\* the angle ranges of a scan: the full circle, a cone, and no angle at all
AngleRanges == {<<0, 12>>, <<1, 4>>, <<4, 4>>}

\* Environment.scan_cone
ScanCone(a0, a1) ==
    /\ elast' = ECall("scan_cone", "value", <<a0, a1>>,
                      scan_cone(obstacles, agent_state, a0, a1))
    /\ UNCHANGED <<obstacles, agent_state, beyond_environment>>

NextEnv ==
    \/ \E obs \in ObstacleInputs : AddObstacle(obs)
    \/ \E state \in StateInputs : SetAgentState(state)
    \/ \E position \in PositionInputs : SetAgentPosition(position)
    \/ \E input \in StepInputs, braking \in BOOLEAN : AgentTakeStep(input, braking)
    \/ \E ar \in AngleRanges : ScanCone(ar[1], ar[2])

SpecEnv == Init /\ [][NextEnv]_vars

(***************************************************************************)
(* An agent that starts within the world and only takes steps, while       *)
(* obstacles are added                                                     *)
(***************************************************************************)
\* in-bounds positions to start from: the centre and two corners
StartPositions ==
    {<<env_size[1] \div 2, env_size[2] \div 2>>, <<0, 0>>, env_size}

InitWalk ==
    /\ grid = [c \in Cells |-> EMPTY]
    /\ path = <<>>
    /\ path_none = TRUE
    /\ path_idx = 0
    /\ idx_none = TRUE
    /\ last = Call("init", "none", NoCell, NoCell, NoCell)
    /\ search = SearchIdle
    /\ obstacles = <<>>
    /\ agent_state \in {set_position(zeros(StateDim), Array1(pos)) : pos \in StartPositions}
    /\ elast = ECall("init", "none", NoArg, NoArg)
    /\ GridInit

NextWalk ==
    \/ \E obs \in ObstacleInputs : AddObstacle(obs)
    \/ \E input \in StepInputs, braking \in BOOLEAN : AgentTakeStep(input, braking)

SpecWalk == InitWalk /\ [][NextWalk]_vars

(***************************************************************************)
(* The grid world object                                                   *)
(***************************************************************************)
\* the walls a host has written into the array of a new grid
WallLayouts == {{}, {<<0, 1>>}, {<<1, 2>>}, {<<0, 0>>, <<1, 1>>}}

\* rows and columns given to the placements, one beyond the array on each side
RowInputs == (-1)..GridRows
ColInputs == (-1)..GridCols

DirectionInputs == {Direction.UP, Direction.DOWN, Direction.LEFT, Direction.RIGHT}

Self == GridObject(world_grid, agent_pos, target_pos)

\* Grid.place_agent
PlaceAgent(row, col) ==
    LET out == place_agent(Self, row, col)
    IN  /\ world_grid' = out.self._grid
        /\ agent_pos' = out.self.agent_pos
        /\ target_pos' = out.self.target_pos
        /\ glast' = GCall("place_agent", <<row, col>>, out.ret)
        /\ UNCHANGED beyond_grid_world

\* Grid.place_target
PlaceTarget(row, col) ==
    LET out == place_target(Self, row, col)
    IN  /\ world_grid' = out.self._grid
        /\ agent_pos' = out.self.agent_pos
        /\ target_pos' = out.self.target_pos
        /\ glast' = GCall("place_target", <<row, col>>, out.ret)
        /\ UNCHANGED beyond_grid_world

\* Grid.agent_move
AgentMove(dir) ==
    LET out == agent_move(Self, dir)
    IN  /\ world_grid' = out.self._grid
        /\ agent_pos' = out.self.agent_pos
        /\ target_pos' = out.self.target_pos
        /\ glast' = GCall("agent_move", dir, out.ret)
        /\ UNCHANGED beyond_grid_world

InitGrid ==
    /\ grid = [c \in Cells |-> EMPTY]
    /\ path = <<>>
    /\ path_none = TRUE
    /\ path_idx = 0
    /\ idx_none = TRUE
    /\ last = Call("init", "none", NoCell, NoCell, NoCell)
    /\ EnvInit
    /\ search = SearchIdle
    /\ world_grid \in {[c \in GridCoords |->
                          IF c \in walls THEN GridStatus.WALL ELSE GridStatus.EMPTY] :
                       walls \in WallLayouts}
    /\ agent_pos = None
    /\ target_pos = None
    /\ glast = GCall("init", NoArg, "none")

NextGrid ==
    \/ \E row \in RowInputs, col \in ColInputs : PlaceAgent(row, col)
    \/ \E row \in RowInputs, col \in ColInputs : PlaceTarget(row, col)
    \/ \E dir \in DirectionInputs : AgentMove(dir)

SpecGrid == InitGrid /\ [][NextGrid]_vars

(***************************************************************************)
(* Single calls of ray_intersect_obstacle, on every ray between two points *)
(* of a small lattice and on boxes with area, without area and with their  *)
(* edges swapped                                                           *)
(***************************************************************************)
RayMax == 4

RayPts == (0..RayMax) \X (0..RayMax)

RayObstacles ==
    {Obstacle(3, 1, 1, 3), Obstacle(3, 1, 2, 3), Obstacle(3, 2, 1, 2),
     Obstacle(2, 0, 2, RayMax), Obstacle(1, 3, 3, 1)}

RayIntersectObstacle(ray, obs) ==
    /\ elast' = ECall("ray_intersect_obstacle", "value",
                      [ray |-> ray, obs |-> obs], ray_intersect_obstacle(ray, obs))
    /\ UNCHANGED <<obstacles, agent_state, beyond_environment>>

\* one call on a fresh environment
NextRay ==
    /\ elast.op = "init"
    /\ \E p0 \in RayPts, p1 \in RayPts, obs \in RayObstacles :
           RayIntersectObstacle(<<p0, p1>>, obs)

SpecRay == Init /\ [][NextRay]_vars

(***************************************************************************)
(* One run of _plan_algo, loop iteration by loop iteration                 *)
(***************************************************************************)
\* the loop iterations a run may take
MaxSteps == NumCells * NumCells + NumCells

\* lines 207-229: one iteration of the while loop; leaving it without the
\* target stores the empty path (lines 232-243)
SearchIterate ==
    /\ search.pc = "search"
    /\ search.steps < MaxSteps
    /\ search' =
          IF DOMAIN search.OPEN = {}
          THEN [search EXCEPT !.pc = "done", !.path = <<>>, !.steps = @ + 1]
          ELSE LET parent_ind == popitem(search.OPEN, search.tb)
                   rest == [c \in (DOMAIN search.OPEN) \ {parent_ind} |-> search.OPEN[c]]
               IN  IF parent_ind = search.target
                   THEN [search EXCEPT !.OPEN = rest, !.done = TRUE, !.steps = @ + 1,
                                       !.pc = "backtrack", !.pos = search.target]
                   ELSE LET st == RelaxWith(search.eps,
                                            neighbor_func(search.m, parent_ind), 1,
                                            parent_ind, search.target,
                                            [g |-> search.g, pred |-> search.pred,
                                             OPEN |-> rest])
                        IN  [search EXCEPT !.g = st.g, !.pred = st.pred, !.OPEN = st.OPEN,
                                            !.steps = @ + 1]
    /\ UNCHANGED beyond_search

\* lines 234-243: one iteration of the backtracking loop; reaching start
\* reverses the list
BacktrackStep ==
    /\ search.pc = "backtrack"
    /\ search.steps < MaxSteps
    /\ search' =
          LET listed == Append(search.path, search.pos)
          IN  IF search.pos = search.start
              THEN [search EXCEPT !.path = Reversed(listed), !.pc = "done",
                                  !.steps = @ + 1]
              ELSE [search EXCEPT !.path = listed, !.steps = @ + 1,
                                  !.pos = PredAt(search.pred, search.pos)]
    /\ UNCHANGED beyond_search

InitSearch ==
    /\ grid = [c \in Cells |-> EMPTY]
    /\ path = <<>>
    /\ path_none = TRUE
    /\ path_idx = 0
    /\ idx_none = TRUE
    /\ last = Call("init", "none", NoCell, NoCell, NoCell)
    /\ EnvInit
    /\ GridInit
    /\ search \in {SearchStart(m, start, target, tb, eps) :
                     m \in Grids, start \in Cells, target \in Cells,
                     tb \in TieBreaks, eps \in EpsValues}

NextSearch ==
    \/ SearchIterate
    \/ BacktrackStep

\* the run goes on while a loop can be iterated
SpecSearch == InitSearch /\ [][NextSearch]_vars /\ WF_vars(NextSearch)

(***************************************************************************)
(* Properties of the planner                                               *)
(***************************************************************************)
\* the cursor is set and the stop after it exists in path p
StopsRemain(p, p_none, idx, i_none) ==
    ~p_none /\ ~i_none /\ idx >= 0 /\ idx + 1 < Len(p)

RayCells(a, b) ==
    LET ray == raytrace(a[1], a[2], b[1], b[2]) IN {ray[k] : k \in 1..Len(ray)}

\* cells on the segments of p from its stop at cursor idx to its end
TailCells(p, idx) ==
    UNION {RayCells(p[k], p[k + 1]) : k \in (idx + 1)..(Len(p) - 1)}

\* cells on the segments of p that end at or before its stop at cursor idx
PassedCells(p, idx) ==
    UNION {RayCells(p[k], p[k + 1]) : k \in 1..idx}

\* every cell next to t is an obstacle
Enclosed(m, t) ==
    \A d \in Cells :
        (d # t /\ Abs(d[1] - t[1]) <= 1 /\ Abs(d[2] - t[2]) <= 1) => m[d] = OBSTACLE

(***************************************************************************)
(* C1: a plan call that fails returns false and leaves the stored path and *)
(* its cursor exactly as the earlier successful plan left them.            *)
(***************************************************************************)
C1_FailedPlanKeepsPath ==
    [][(~idx_none /\ last'.op = "plan" /\ last'.res = "false")
          => (path' = path /\ path_none' = path_none
              /\ path_idx' = path_idx /\ idx_none' = idx_none)]_vars

(***************************************************************************)
(* C2: for a stored path with stops remaining, path_valid returns false    *)
(* when some cell on the rasterized line of a segment from the cursor to   *)
(* the end of the path is an obstacle, and true when none is.              *)
(***************************************************************************)
C2_PathValidIffTailClear ==
    [][(StopsRemain(path, path_none, path_idx, idx_none) /\ last'.op = "path_valid")
          => last'.res = (IF \E c \in TailCells(path, path_idx) : grid[c] = OBSTACLE
                          THEN "false" ELSE "true")]_vars

(***************************************************************************)
(* C3: an obstacle on a cell that lies only on segments already passed     *)
(* (not on any segment from the cursor's stop to the end) does not change  *)
(* the result of path_valid.                                               *)
(***************************************************************************)
C3_TraversedSegmentsIgnored ==
    (~path_none /\ ~idx_none /\ path_idx >= 0 /\ path_idx < Len(path))
        => \A c \in PassedCells(path, path_idx) \ TailCells(path, path_idx) :
             \A start \in WorldPts :
                path_valid([grid EXCEPT ![c] = OBSTACLE], path, path_none, path_idx,
                           idx_none, start)
                = path_valid([grid EXCEPT ![c] = EMPTY], path, path_none, path_idx,
                             idx_none, start)

(***************************************************************************)
(* C4: with the target cell enclosed by obstacle cells and no successful   *)
(* plan before, plan returns false and leaves an empty path, and the       *)
(* path_valid call that follows returns false, it does not raise.          *)
(***************************************************************************)
C4_EnclosedTargetNoPath ==
    [][/\ (/\ idx_none
           /\ last'.op = "plan"
           /\ convert_to_grid_coord(last'.a) # convert_to_grid_coord(last'.b)
           /\ Enclosed(grid, convert_to_grid_coord(last'.b)))
          => (last'.res = "false" /\ path' = <<>>)
       /\ (/\ idx_none
           /\ last.op = "plan"
           /\ last.res = "false"
           /\ Enclosed(grid, convert_to_grid_coord(last.b))
           /\ last'.op = "path_valid")
          => last'.res = "false"]_vars

(***************************************************************************)
(* C5: once path_valid returns false on a path that has stops remaining,   *)
(* the planner is back in NO_PATH: the stored path is gone.                *)
(***************************************************************************)
C5_InvalidPathIsDropped ==
    [][(/\ StopsRemain(path, path_none, path_idx, idx_none)
        /\ last'.op = "path_valid"
        /\ last'.res = "false")
          => (path_none' \/ path' = <<>>)]_vars

(***************************************************************************)
(* C6: over next_stop, take_next_stop and path_valid calls the cursor      *)
(* never decreases and stays within 0..len(path), single-cell paths        *)
(* included.                                                               *)
(***************************************************************************)
C6_CursorMonotoneBounded ==
    [][(/\ ~path_none
        /\ ~idx_none
        /\ path_idx \in 0..Len(path)
        /\ last'.op \in {"next_stop", "take_next_stop", "path_valid"})
          => (path_idx' >= path_idx /\ path_idx' \in 0..Len(path'))]_vars

\* the cost the neighbor strategy gives the edge u -> v, Inf when it lists none
EdgeCost(m, u, v) ==
    LET infos == neighbor_func(m, u)
        ks == {k \in 1..Len(infos) : infos[k].coord = v}
    IN  IF ks = {} THEN Inf ELSE infos[CHOOSE k \in ks : TRUE].cost

AddCost(x, y) == IF x = Inf \/ y = Inf THEN Inf ELSE x + y

RECURSIVE PathCostFrom(_, _, _)
PathCostFrom(m, p, k) ==
    IF k >= Len(p) THEN 0
    ELSE AddCost(EdgeCost(m, p[k], p[k + 1]), PathCostFrom(m, p, k + 1))

\* the sum of the edge costs along p
PathCost(m, p) == PathCostFrom(m, p, 1)

\* Bellman-Ford: the edges out of u, from the k-th of infos on, relaxed in d
RECURSIVE RelaxEdges(_, _, _, _)
RelaxEdges(infos, k, u, d) ==
    IF k > Len(infos) THEN d
    ELSE LET v == infos[k].coord
             nd == AddCost(d[u], infos[k].cost)
         IN  IF nd < d[v]
             THEN RelaxEdges(infos, k + 1, u, [d EXCEPT ![v] = nd])
             ELSE RelaxEdges(infos, k + 1, u, d)

\* one round: the edges out of every reached cell from the i-th on
RECURSIVE RelaxCells(_, _, _)
RelaxCells(m, i, d) ==
    IF i >= NumCells THEN d
    ELSE IF d[CellAt(i)] = Inf THEN RelaxCells(m, i + 1, d)
    ELSE RelaxCells(m, i + 1, RelaxEdges(neighbor_func(m, CellAt(i)), 1, CellAt(i), d))

RECURSIVE RelaxRounds(_, _, _)
RelaxRounds(m, d, rounds) ==
    IF rounds = 0 THEN d ELSE RelaxRounds(m, RelaxCells(m, 0, d), rounds - 1)

\* the least cost of a path from s to t in the graph of the neighbor strategy
ShortestCost(m, s, t) ==
    RelaxRounds(m, [[v \in Cells |-> Inf] EXCEPT ![s] = 0], NumCells - 1)[t]

\* the arguments of the last plan call as grid cells
PlanStart == convert_to_grid_coord(last.a)

PlanTarget == convert_to_grid_coord(last.b)

(***************************************************************************)
(* C7: when the stop after the cursor exists, next_stop returns it in      *)
(* world coordinates and changes neither cursor nor path; take_next_stop   *)
(* returns the same stop and advances the cursor by exactly one.           *)
(***************************************************************************)
C7_NextStopAndTake ==
    [][(~path_none /\ ~idx_none /\ path_idx + 1 \in 0..(Len(path) - 1))
          => /\ last'.op = "next_stop"
                  => /\ last'.res = "value"
                     /\ last'.val = <<Res * path[path_idx + 2][1],
                                      Res * path[path_idx + 2][2]>>
                     /\ path_idx' = path_idx
                     /\ path' = path
             /\ last'.op = "take_next_stop"
                  => /\ last'.res = "value"
                     /\ last'.val = <<Res * path[path_idx + 2][1],
                                      Res * path[path_idx + 2][2]>>
                     /\ path_idx' = path_idx + 1
                     /\ path' = path]_vars

\* the last stop of a three-cell path has just been taken
C7_Witness ==
    /\ last.op = "take_next_stop"
    /\ last.res = "value"
    /\ Len(path) = 3
    /\ path_idx = 2
    /\ last.val = convert_to_world_coord(path[3])

(***************************************************************************)
(* C8: when start and target fall in the same grid cell, plan returns true *)
(* and stores the one-element path of that cell, whatever the occupancy.   *)
(***************************************************************************)
C8_SameCellPlan ==
    (last.op = "plan" /\ PlanStart = PlanTarget)
        => (last.res = "true" /\ ~path_none /\ path = <<PlanStart>>)

\* two different points of one occupied cell have been planned between
C8_Witness ==
    /\ last.op = "plan"
    /\ last.a # last.b
    /\ PlanStart = PlanTarget
    /\ grid[PlanStart] = OBSTACLE
    /\ path = <<PlanStart>>

(***************************************************************************)
(* C9: with eps = 1 on an obstacle-free grid, the edge costs along the     *)
(* path plan returns sum to the exact shortest-path cost from start to     *)
(* target in the graph of the neighbor strategy.                           *)
(***************************************************************************)
C9_OptimalOnFreeGrid ==
    (last.op = "plan" /\ last.res = "true" /\ Obstacles(grid) = {})
        => PathCost(get_binary_map(grid), path)
           = ShortestCost(get_binary_map(grid), PlanStart, PlanTarget)

\* a plan across the free grid that needs a diagonal and a straight hop
C9_Witness ==
    /\ last.op = "plan"
    /\ last.res = "true"
    /\ Obstacles(grid) = {}
    /\ Eps = 1
    /\ Len(path) = 3
    /\ PathCost(get_binary_map(grid), path) = Norm(1, 1) + Norm(1, 0)

(***************************************************************************)
(* C10: after a successful plan the path starts at the start cell, ends at *)
(* the target cell, and every hop is an edge the neighbor strategy gives a *)
(* finite cost on the map: no obstacle cell on the hop's rasterized line.  *)
(***************************************************************************)
C10_PathIsChainOfEdges ==
    (last.op = "plan" /\ last.res = "true")
        => /\ Len(path) >= 1
           /\ path[1] = PlanStart
           /\ path[Len(path)] = PlanTarget
           /\ \A k \in 1..(Len(path) - 1) :
                /\ EdgeCost(get_binary_map(grid), path[k], path[k + 1]) # Inf
                /\ \A c \in RayCells(path[k], path[k + 1]) : grid[c] # OBSTACLE

\* a successful plan of three cells on a map that holds an obstacle
C10_Witness ==
    /\ last.op = "plan"
    /\ last.res = "true"
    /\ Obstacles(grid) # {}
    /\ Len(path) = 3
    /\ path[1] = PlanStart
    /\ path[3] = PlanTarget

(***************************************************************************)
(* Properties of the environment                                           *)
(***************************************************************************)
\* the edge value v lies within 0..size
EdgeWithin(v, size) == v >= 0 /\ v <= size

\* all four edges of obs lie within the world bounds
EdgesWithinBounds(obs) ==
    /\ EdgeWithin(obs.left, env_size[1])
    /\ EdgeWithin(obs.right, env_size[1])
    /\ EdgeWithin(obs.bottom, env_size[2])
    /\ EdgeWithin(obs.top, env_size[2])

\* C11: add_obstacle with any of the four edges outside the world bounds
\* returns false and leaves the obstacle list unchanged; it appends the obstacle
\* and returns true only when all four edges lie within the bounds.
C11_AddObstacleChecksAllEdges ==
    [][elast'.op = "add_obstacle" =>
          IF EdgesWithinBounds(elast'.arg)
          THEN elast'.res = "true" /\ obstacles' = Append(obstacles, elast'.arg)
          ELSE elast'.res = "false" /\ obstacles' = obstacles]_vars

\* the candidate state of the agent_take_step call recorded in elast
StepCandidate(state, call) == step(state, call.arg.input, call.arg.braking)

\* pos lies in the world, its border included
InWorld(pos) ==
    pos[1] \in 0..env_size[1] /\ pos[2] \in 0..env_size[2]

\* pos lies in or on the edge of an obstacle of the list
Blocked(obsl, pos) ==
    \E k \in 1..Len(obsl) :
        /\ obsl[k].left <= pos[1] /\ pos[1] <= obsl[k].right
        /\ obsl[k].bottom <= pos[2] /\ pos[2] <= obsl[k].top

\* pos lies on the edge of an obstacle of the list
OnAnEdge(obsl, pos) ==
    \E k \in 1..Len(obsl) :
        /\ obsl[k].left <= pos[1] /\ pos[1] <= obsl[k].right
        /\ obsl[k].bottom <= pos[2] /\ pos[2] <= obsl[k].top
        /\ pos[1] \in {obsl[k].left, obsl[k].right} \/ pos[2] \in {obsl[k].bottom, obsl[k].top}

\* C12: agent_take_step commits the motion model's candidate state and returns
\* true exactly when the candidate's position is within the world bounds and in
\* no obstacle, edges included; otherwise it returns false and the agent state
\* is unchanged. The obstacles are unchanged either way.
C12_StepCommitsIffFree ==
    [][elast'.op = "agent_take_step" =>
          LET cand == StepCandidate(agent_state, elast')
              pos == <<cand.data[1], cand.data[2]>>
          IN  /\ obstacles' = obstacles
              /\ IF InWorld(pos) /\ ~Blocked(obstacles, pos)
                 THEN elast'.res = "true" /\ agent_state' = cand
                 ELSE elast'.res = "false" /\ agent_state' = agent_state]_vars

\* a step was refused because its candidate lay on the edge of an obstacle
C12_Witness ==
    /\ elast.op = "agent_take_step"
    /\ elast.res = "false"
    /\ ~elast.arg.braking
    /\ LET cand == StepCandidate(agent_state, elast)
           pos == <<cand.data[1], cand.data[2]>>
       IN  InWorld(pos) /\ OnAnEdge(obstacles, pos)

\* C13: in every reachable state the agent state is a one-dimensional array of
\* the motion model's state dimension. Setting a state of another shape is
\* rejected and the prior state is retained; the position setter and
\* agent_take_step do not change the shape.
C13_StateDimensionKept ==
    /\ [](agent_state.shape = <<StateDim>> /\ Len(agent_state.data) = StateDim)
    /\ [][(elast'.op = "set_agent_state" /\ elast'.arg.shape # <<StateDim>>) =>
              (elast'.res = "false" /\ agent_state' = agent_state)]_vars
    /\ [][elast'.op \in {"set_agent_position", "agent_take_step"} =>
              agent_state'.shape = agent_state.shape]_vars

\* a state one entry too long was rejected after the agent had left its
\* initial state
C13_Witness ==
    /\ elast.op = "set_agent_state"
    /\ elast.arg.shape = <<StateDim + 1>>
    /\ elast.res = "false"
    /\ agent_state # InitialAgentState

(***************************************************************************)
(* Properties of ray_intersect_obstacle                                    *)
(***************************************************************************)
RayCallMade == elast.op = "ray_intersect_obstacle"

\* the slab of obs on axis i, from its lower to its upper edge
SlabLo(obs, i) ==
    IF i = 1
    THEN (IF obs.left <= obs.right THEN obs.left ELSE obs.right)
    ELSE (IF obs.bottom <= obs.top THEN obs.bottom ELSE obs.top)

SlabHi(obs, i) ==
    IF i = 1
    THEN (IF obs.left <= obs.right THEN obs.right ELSE obs.left)
    ELSE (IF obs.bottom <= obs.top THEN obs.top ELSE obs.bottom)

WellFormed(obs) == obs.left <= obs.right /\ obs.bottom <= obs.top

RayDir(ray) == <<ray[2][1] - ray[1][1], ray[2][2] - ray[1][2]>>

\* a denominator that every parameter at which the ray meets an edge, and the
\* midpoint of any two of them, can be written over
Samples(ray) ==
    LET d == RayDir(ray)
    IN  2 * (IF d[1] = 0 THEN 1 ELSE Abs(d[1])) * (IF d[2] = 0 THEN 1 ELSE Abs(d[2]))

\* the point of the ray at parameter k/n does (strict) or does not have to lie
\* off the edges of obs to count as in it
SampleIn(ray, obs, k, n, strict) ==
    LET d == RayDir(ray)
    IN  \A i \in 1..2 :
            LET v == n * ray[1][i] + k * d[i]
            IN  IF strict
                THEN n * SlabLo(obs, i) < v /\ v < n * SlabHi(obs, i)
                ELSE n * SlabLo(obs, i) <= v /\ v <= n * SlabHi(obs, i)

\* the segment has a point in the interior of obs
CrossesInterior(ray, obs) ==
    \E k \in 0..Samples(ray) : SampleIn(ray, obs, k, Samples(ray), TRUE)

\* the first sample of the segment in obs, edges included
EntrySample(ray, obs) ==
    CHOOSE k \in 0..Samples(ray) :
        /\ SampleIn(ray, obs, k, Samples(ray), FALSE)
        /\ \A j \in 0..(k - 1) : ~SampleIn(ray, obs, j, Samples(ray), FALSE)

\* the call reported a collision at the point where the segment enters obs
CollisionAtEntry(call) ==
    LET ray == call.arg.ray
        obs == call.arg.obs
        n == Samples(ray)
        k == EntrySample(ray, obs)
        d == RayDir(ray)
        pt == call.val.endpoint
    IN  /\ call.val.collide
        /\ \A i \in 1..2 : pt[i][1] * n = (n * ray[1][i] + k * d[i]) * pt[i][2]

OriginInObstacle(ray, obs) ==
    /\ obs.left <= ray[1][1] /\ ray[1][1] <= obs.right
    /\ obs.bottom <= ray[1][2] /\ ray[1][2] <= obs.top

OutsideSlab(ray, obs, i) ==
    \/ ray[1][i] < SlabLo(obs, i) /\ ray[2][i] < SlabLo(obs, i)
    \/ ray[1][i] > SlabHi(obs, i) /\ ray[2][i] > SlabHi(obs, i)

\* C15: a ray whose segment lies fully outside the obstacle's slab on some axis
\* never reports a collision; on an axis where the ray's direction is zero, the
\* ray is rejected (no collision, endpoint = far end) when the origin lies
\* outside that axis's slab.
C15_OutsideSlabNoCollision ==
    RayCallMade =>
        LET ray == elast.arg.ray
            obs == elast.arg.obs
        IN  /\ (\E i \in 1..2 : OutsideSlab(ray, obs, i)) => ~elast.val.collide
            /\ (\E i \in 1..2 : RayDir(ray)[i] = 0 /\ OutsideSlab(ray, obs, i))
                   => (~elast.val.collide /\ elast.val.endpoint = PointOf(ray[2]))

\* a ray that runs along a box, off its slab on the axis it does not move on,
\* and from before to beyond the box on the other axis
C15_Witness ==
    /\ RayCallMade
    /\ WellFormed(elast.arg.obs)
    /\ \E i \in 1..2 :
          /\ RayDir(elast.arg.ray)[i] = 0
          /\ OutsideSlab(elast.arg.ray, elast.arg.obs, i)
          /\ elast.arg.ray[1][3 - i] < SlabLo(elast.arg.obs, 3 - i)
          /\ elast.arg.ray[2][3 - i] > SlabHi(elast.arg.obs, 3 - i)
    /\ ~elast.val.collide

(***************************************************************************)
(* Properties of scan_cone                                                 *)
(***************************************************************************)
\* the ray scan_cone casts from state's position at angle index a
ScanRay(state, a) ==
    LET pos == <<state.data[1], state.data[2]>>
        end == ConeEnds[(a % Len(ConeEnds)) + 1]
    IN  <<pos, <<pos[1] + end[1], pos[2] + end[2]>>>>

\* the obstacles of the list that the ray collides with
HitBy(obsl, ray) ==
    {k \in 1..Len(obsl) : ray_intersect_obstacle(ray, obsl[k]).collide}

\* the distance from state's position to the point where ray collides with obs
HitDistance(state, ray, obs) ==
    NormTo(ray_intersect_obstacle(ray, obs).endpoint, <<state.data[1], state.data[2]>>)

\* one result per sampled angle, in the order of the angles
OneResultPerAngle(call) ==
    LET n == IF call.arg[2] > call.arg[1] THEN call.arg[2] - call.arg[1] ELSE 0
    IN  /\ Len(call.val) = n
        /\ \A i \in 1..n : call.val[i].angle = call.arg[1] + i - 1

\* each range is max_range without a hit and the least hit distance otherwise
RangesAreNearestHits(obsl, state, call) ==
    \A i \in 1..Len(call.val) :
        LET ray == ScanRay(state, call.val[i].angle)
            hits == HitBy(obsl, ray)
            rng == call.val[i].range
        IN  IF hits = {}
            THEN rng = <<MaxRange, 1>>
            ELSE /\ \E k \in hits : rng = HitDistance(state, ray, obsl[k])
                 /\ \A k \in hits : ~RLess(HitDistance(state, ray, obsl[k]), rng)

NoRangeBeyondMax(call) ==
    \A i \in 1..Len(call.val) : ~RLess(<<MaxRange, 1>>, call.val[i].range)

\* C16: scan_cone returns exactly one result per sampled angle; each range is
\* max_range when no obstacle is hit and otherwise the minimum over the
\* obstacles of the distance from the agent to the collision point, so no
\* reported range exceeds max_range; the call changes neither the obstacles nor
\* the agent state.
C16_ScanRanges ==
    [][elast'.op = "scan_cone" =>
          /\ OneResultPerAngle(elast')
          /\ RangesAreNearestHits(obstacles, agent_state, elast')
          /\ NoRangeBeyondMax(elast')
          /\ obstacles' = obstacles
          /\ agent_state' = agent_state]_vars

(***************************************************************************)
(* Further properties of the planner                                       *)
(***************************************************************************)
\* _plan_algo run from scratch on map m for the plan call recorded in call
FreshPlan(m, call) ==
    PlanTab[GridKey(m)][PlanKey(convert_to_grid_coord(call.a),
                                convert_to_grid_coord(call.b), call.val)]

C18_PathValidFalseOnlyAtEnd ==
    [][(last'.op = "path_valid" /\ ~path_none /\ ~idx_none /\ Len(path) > 1) =>
          /\ (path_idx = Len(path) - 1) => (last'.res = "false")
          /\ (path_idx \in 0..(Len(path) - 2) /\ Obstacles(grid) = {})
                 => (last'.res # "false")]_vars

\* C19: immediately after a successful plan(start, target), with no map update
\* in between, path_valid(start) returns true.
C19_FreshPathIsValid ==
    (last.op = "plan" /\ last.res = "true")
        => path_valid(grid, path, path_none, path_idx, idx_none, last.a) = "true"

(***************************************************************************)
(* Properties of a run of _plan_algo                                       *)
(***************************************************************************)
\* a key is put in the open set, or its priority rewritten, only together
\* with a strictly lower cost-to-come
EntersOnlyLower ==
    \A c \in Cells :
        (/\ search.pc = "search"
         /\ c \in DOMAIN search'.OPEN
         /\ (c \notin DOMAIN search.OPEN \/ search'.OPEN[c] # search.OPEN[c]))
            => search'.g[c] < search.g[c]

\* the stored path runs from start to target, each cell the recorded
\* predecessor of the next, and no cell twice
ChainFromStart ==
    LET p == search.path
    IN  /\ p[1] = search.start
        /\ p[Len(p)] = search.target
        /\ \A k \in 1..(Len(p) - 1) : search.pred[p[k + 1]] = p[k]
        /\ \A j \in 1..Len(p), k \in 1..Len(p) : (p[j] = p[k]) => (j = k)

\* a run that has not ended can make its next loop iteration: it has not used
\* up the iterations a run may take, so every run ends within MaxSteps of them
LoopCanGoOn ==
    /\ search.pc \in {"search", "backtrack"}
    /\ search.steps < MaxSteps

\* the run has left both loops having reached the target
Succeeded == search.pc = "done" /\ search.done

\* C20: on every finite grid and for every eps >= 1, plan terminates: the
\* search loop ends by popping the target or emptying the open set, a cell
\* re-entering the open set only with a strictly lower cost-to-come; and on
\* success the predecessor chain from the target reaches the start without
\* cycling.
C20_SearchTerminates ==
    /\ [](search.pc # "done" => LoopCanGoOn)
    /\ [][EntersOnlyLower]_vars
    /\ []((Succeeded /\ search.start # search.target) => ChainFromStart)

\* a run with eps above 1 on a map with an obstacle ended with a path of
\* three cells or more
C20_Witness ==
    /\ Succeeded
    /\ search.eps > 1
    /\ \E c \in Cells : search.m[c] # 0
    /\ Len(search.path) >= 3

(***************************************************************************)
(* The one-cell path                                                       *)
(***************************************************************************)
\* C21: on a single-cell path every call of take_next_stop and of next_stop
\* returns the path's only cell and never fails, however many calls came
\* before: the cursor is reset to before the cell rather than exhausted.
C21_OneCellPathNeverEnds ==
    [][(last'.op \in {"next_stop", "take_next_stop"} /\ ~path_none /\ Len(path) = 1) =>
          /\ last'.res = "value"
          /\ last'.val = convert_to_world_coord(path[1])
          /\ path' = path
          /\ path_idx' = (IF last'.op = "next_stop" THEN -1 ELSE 0)]_vars

\* take_next_stop returned the only cell of a one-cell path and left the
\* cursor on it, from where the next call resets it again
C21_Witness ==
    /\ last.op = "take_next_stop"
    /\ last.res = "value"
    /\ ~path_none /\ Len(path) = 1
    /\ last.val = convert_to_world_coord(path[1])
    /\ path_idx = 0

(***************************************************************************)
(* Where the agent can be                                                  *)
(***************************************************************************)
AgentPosition == <<agent_state.data[1], agent_state.data[2]>>

\* C22: starting from an in-bounds agent position, after any interleaving of
\* agent_take_step and add_obstacle calls the agent position is within the
\* world bounds, and right after every successful agent_take_step the agent
\* position is outside every obstacle in the list at that moment.
C22_AgentStaysInFreeWorld ==
    /\ InWorld(AgentPosition)
    /\ (elast.op = "agent_take_step" /\ elast.res = "true")
           => ~Blocked(obstacles, AgentPosition)

\* a step that moved the agent succeeded next to an obstacle of a full list
\* and ended on the border of the world
C22_Witness ==
    /\ elast.op = "agent_take_step"
    /\ elast.res = "true"
    /\ ~elast.arg.braking
    /\ Len(obstacles) = MaxEnvObstacles
    /\ AgentPosition[1] = env_size[1]
    /\ Blocked(obstacles, <<AgentPosition[1], AgentPosition[2] - 1>>)

(***************************************************************************)
(* Properties of the grid world                                            *)
(***************************************************************************)
\* C23: after any sequence of place_agent, place_target and agent_move calls,
\* the cell at the agent's position is marked AGENT, or BOTH when it is also
\* the target's position, and the cell at the target's position is marked
\* TARGET or BOTH.
C23_MarkersFollowPositions ==
    /\ agent_pos # None =>
           world_grid[agent_pos] =
               (IF agent_pos = target_pos THEN GridStatus.BOTH ELSE GridStatus.AGENT)
    /\ target_pos # None =>
           world_grid[target_pos] \in {GridStatus.TARGET, GridStatus.BOTH}

\* the half of C23 about the target's cell
TargetCellMarked ==
    target_pos # None => world_grid[target_pos] \in {GridStatus.TARGET, GridStatus.BOTH}

\* the cell reached from coord by one step in direction dir, by DirectionDict
Toward(coord, dir) ==
    LET off == CHOOSE o \in DOMAIN DirectionDict : DirectionDict[o] = dir
    IN  <<coord[1] + off[1], coord[2] + off[2]>>

\* C24: with the agent placed, agent_move toward a cell that is out of bounds
\* or a wall returns false and leaves the grid array and the agent position
\* unchanged; otherwise it returns true, the agent position changes by exactly
\* one cell in the given direction, and the cell left behind is marked
\* PREV_AGENT unless it is the target's cell.
C24_AgentMoveOutcome ==
    [][(glast'.op = "agent_move" /\ agent_pos # None) =>
          LET coord == Toward(agent_pos, glast'.arg)
          IN  IF coord \notin GridCoords \/ world_grid[coord] = GridStatus.WALL
              THEN /\ glast'.ret = "false"
                   /\ world_grid' = world_grid
                   /\ agent_pos' = agent_pos
              ELSE /\ glast'.ret = "true"
                   /\ agent_pos' = coord
                   /\ (agent_pos # target_pos)
                          => world_grid'[agent_pos] = GridStatus.PREV_AGENT]_vars

\* in a grid with a wall, a move took the agent off the target's cell, which
\* reads TARGET, while an earlier cell of the agent reads PREV_AGENT
C24_Witness ==
    /\ glast.op = "agent_move"
    /\ glast.ret = "true"
    /\ \E c \in GridCoords : world_grid[c] = GridStatus.WALL
    /\ target_pos # None
    /\ Toward(target_pos, glast.arg) = agent_pos
    /\ world_grid[target_pos] = GridStatus.TARGET
    /\ \E c \in GridCoords : world_grid[c] = GridStatus.PREV_AGENT

=============================================================================
